---- MODULE Spec2Model ----
(***************************************************************************)
(* The bankroll ledger of bet-tracker-pro: the banks and bets tables, the  *)
(* row-level security policies and the update_bank_balance trigger of the  *)
(* schema (src/src/components/Layout.tsx, SQL part), and the handlers of   *)
(* the pages that write and read them.                                     *)
(*                                                                         *)
(* Money columns are DECIMAL(10,2): they are modelled in cents.  The odds  *)
(* column is DECIMAL(10,2) too: it is modelled in hundredths.  A nullable  *)
(* value (a SQL NULL, a NaN out of parseFloat) is a set of at most one     *)
(* element: {} is the absent value and {v} the value v.                    *)
(***************************************************************************)
EXTENDS Integers, Sequences, FiniteSets, TLC

VARIABLES
    banks,       \* table public.banks: id -> row, for the rows that exist
    bets,        \* table public.bets: id -> row, for the rows that exist
    nextBankId,  \* the next id gen_random_uuid() gives a bank
    nextBetId,   \* the next id gen_random_uuid() gives a bet
    toast,       \* per device: the variant of the last toast shown
    txn,         \* per device: the write statement in progress, if any
    dashBanks,   \* Dashboard's `banks` state: the rows of its last fetch
    hist,        \* History's state: selectedBank, statusFilter, currentPage,
                 \* bets (the ids of the rows of its last fetch), totalBets
    dailyStats,  \* Dashboard's `dailyStats` state
    daily,       \* DailyBets' state: selectedBank, selectedDate, bets (the
                 \* rows of its last fetch)
    fetching,    \* the fetches of History that are sent and not answered
    layout       \* the client's auth session (auth), the route (pathname),
                 \* and Layout: mounted, its `session` state, the paths of
                 \* the getSession() calls not yet resolved (pending), and
                 \* whether its last render returned the children

\* the state of the pages other than History
views == <<dailyStats, daily, fetching, layout>>

vars ==
    <<banks, bets, nextBankId, nextBetId, toast, txn, dashBanks, hist, views>>

----------------------------------------------------------------------------
(* Bounds and input sets *)

MaxBanks == 2
MaxBets == 2

Users == {"A", "B"}
Sessions == {"s1", "s2"}
Statuses == {"won", "lost", "open"}

Null == {}
Some(v) == {v}
IsNull(x) == x = {}
Val(x) == CHOOSE v \in x : TRUE

\* stakes 50.00 and 100.00, odds 1.80 and 2.50
Stakes == {5000, 10000}
OddsSet == {180, 250}
\* stakes and odds whose product has more than two decimals
WideStakes == {1, 1025, 3333, 10000}
WideOdds == {100, 150, 185, 333}
\* what a crafted request may put in the profit column
SuppliedProfits == {Null, Some(77700)}
\* what the forms may hold after parseFloat: NaN, out of range, valid
BalanceInputs == {Null, Some(-1), Some(100000)}
\* dates are day numbers; the date field of NewBet starts at today
Today == 1

----------------------------------------------------------------------------
(* The schema: trigger function and tables *)

\* x / d rounded to the nearest integer, halves away from zero: the
\* rounding of a numeric value assigned to a DECIMAL(10,2) column
RoundDiv(x, d) ==
    IF x >= 0 THEN (2 * x + d) \div (2 * d)
    ELSE -((2 * (-x) + d) \div (2 * d))

\* (a settlement that pays out the gross return of a won wager)
TriggerProfitGross(new) ==
    IF new.status = "won"
    THEN Some(RoundDiv(new.amount * new.odds, 100))
    ELSE IF new.status = "lost"
    THEN Some(-new.amount)
    ELSE Some(0)

\* update_bank_balance, first part: NEW.profit from NEW.status.  amount is
\* in cents and odds in hundredths, so amount * odds - amount is
\* (amount * odds - 100 * amount) / 100 cents, rounded into the column.
TriggerProfit(new) ==
    IF new.status = "won"
    THEN Some(RoundDiv(new.amount * new.odds - 100 * new.amount, 100))
    ELSE IF new.status = "lost"
    THEN Some(-new.amount)
    ELSE Some(0)

RECURSIVE SumProfit(_, _)
SumProfit(tbl, ids) ==
    IF ids = {} THEN 0
    ELSE LET i == CHOOSE j \in ids : TRUE
         IN (IF IsNull(tbl[i].profit) THEN 0 ELSE Val(tbl[i].profit))
            + SumProfit(tbl, ids \ {i})

\* SELECT COALESCE(SUM(profit), 0) FROM bets
\*   WHERE bank_id = NEW.bank_id AND status != 'open'
\* over the rows of `tbl`, the bets table as the statement sees it
SettledSum(tbl, bankId) ==
    SumProfit(tbl, {i \in DOMAIN tbl :
                      tbl[i].bank_id = bankId /\ tbl[i].status /= "open"})

\* (an UPDATE of banks without its WHERE clause)
SetBalanceOfAll(tbl, bankId, sum) ==
    [b \in DOMAIN tbl |->
        [tbl[b] EXCEPT !.current_balance = tbl[b].initial_balance + sum]]

\* (a reconciler that adds the sum to the balance it finds)
SetBalanceDelta(tbl, bankId, sum) ==
    [b \in DOMAIN tbl |->
        IF b = bankId
        THEN [tbl[b] EXCEPT !.current_balance = tbl[b].current_balance + sum]
        ELSE tbl[b]]

\* UPDATE banks SET current_balance = initial_balance + <sum> WHERE id = bankId
\* (SECURITY DEFINER: no row-level policy applies)
SetBalance(tbl, bankId, sum) ==
    [b \in DOMAIN tbl |->
        IF b = bankId
        THEN [tbl[b] EXCEPT !.current_balance = tbl[b].initial_balance + sum]
        ELSE tbl[b]]

\* (a trigger whose sum counts the row being written as well)
TriggerBanksCountingNew(banksTbl, betsTbl, new) ==
    SetBalance(banksTbl, new.bank_id,
               SettledSum(betsTbl, new.bank_id)
                 + IF new.status = "open" THEN 0 ELSE Val(TriggerProfit(new)))

\* (a reconciler that also moves the initial balance to the balance it
\* found)
TriggerBanksRebase(banksTbl, betsTbl, new) ==
    [b \in DOMAIN banksTbl |->
        IF b = new.bank_id
        THEN [banksTbl[b] EXCEPT
                !.initial_balance = banksTbl[b].current_balance,
                !.current_balance = banksTbl[b].initial_balance
                                      + SettledSum(betsTbl, b)]
        ELSE banksTbl[b]]

\* The trigger update_bet_profit is BEFORE INSERT OR UPDATE: the function
\* runs before the row is written, so its SELECT reads the bets table
\* without the row being inserted, and with the old version of the row
\* being updated.
TriggerBanks(banksTbl, betsTbl, new) ==
    SetBalance(banksTbl, new.bank_id, SettledSum(betsTbl, new.bank_id))

\* (a trigger that fills the profit only where the write sent none)
TriggerRowIfMissing(new) ==
    IF IsNull(new.profit) THEN [new EXCEPT !.profit = TriggerProfit(new)]
    ELSE new

\* NEW as the trigger returns it: the profit overwritten on every write
TriggerRow(new) == [new EXCEPT !.profit = TriggerProfit(new)]

Put(tbl, id, row) ==
    [i \in DOMAIN tbl \cup {id} |-> IF i = id THEN row ELSE tbl[i]]

Drop(tbl, ids) == [i \in DOMAIN tbl \ ids |-> tbl[i]]

\* policies "Users can create their own bets" (WITH CHECK) and the
\* foreign key bets.bank_id -> banks.id (checked without row security)
InsertAllowed(caller, row) ==
    /\ caller = row.user_id
    /\ row.bank_id \in DOMAIN banks

\* policies "Users can update/delete their own bets" (USING): the rows of
\* the statement are those the caller owns
BetVisible(caller, id) ==
    /\ id \in DOMAIN bets
    /\ bets[id].user_id = caller

\* policy "Users can delete their own banks" (USING)
BankVisible(caller, id) ==
    /\ id \in DOMAIN banks
    /\ banks[id].user_id = caller

Idle == [s \in Sessions |-> {}]

\* History before it is mounted: useState(""), "all", [], 1, 0
NoHistory ==
    [selectedBank |-> Null, statusFilter |-> "all", bets |-> <<>>,
     currentPage |-> 1, totalBets |-> 0]

\* Dashboard's dailyStats before its first fetch
NoStats == [total_bets |-> 0, total_won |-> 0, total_lost |-> 0,
            net_profit |-> 0]

\* DailyBets before it is mounted: useState(""), today, []
NoDaily == [selectedBank |-> Null, selectedDate |-> Today, bets |-> <<>>]

\* no client session, and no Layout mounted: the page /auth is shown
NoLayout ==
    [auth |-> Null, pathname |-> "/auth", mounted |-> FALSE,
     session |-> Null, pending |-> {}, children |-> FALSE]

Init ==
    /\ banks = <<>>
    /\ bets = <<>>
    /\ nextBankId = 1
    /\ nextBetId = 1
    /\ toast = [s \in Sessions |-> "none"]
    /\ txn = Idle
    /\ dashBanks = <<>>
    /\ hist = NoHistory
    /\ dailyStats = NoStats
    /\ daily = NoDaily
    /\ fetching = {}
    /\ layout = NoLayout

Say(s, variant) == toast' = [toast EXCEPT ![s] = variant]

----------------------------------------------------------------------------
(* Statements run one at a time (a single client): each is one atomic     *)
(* step, trigger included.                                                 *)

\* (a create that opens the bankroll with an empty balance)
CreateBankEmpty(s, caller, balance) ==
    /\ txn = Idle
    /\ IF IsNull(balance) \/ Val(balance) < 0
       THEN /\ Say(s, "error")
            /\ UNCHANGED <<banks, nextBankId>>
       ELSE /\ nextBankId <= MaxBanks
            /\ banks' = Put(banks, nextBankId,
                            [user_id |-> caller,
                             initial_balance |-> Val(balance),
                             current_balance |-> 0])
            /\ nextBankId' = nextBankId + 1
            /\ Say(s, "success")
    /\ UNCHANGED <<bets, nextBetId, txn, dashBanks, hist, views>>

\* Banks.handleCreateBank
CreateBank(s, caller, balance) ==
    /\ txn = Idle
    /\ IF IsNull(balance) \/ Val(balance) < 0
       THEN /\ Say(s, "error")
            /\ UNCHANGED <<banks, nextBankId>>
       ELSE /\ nextBankId <= MaxBanks
            /\ banks' = Put(banks, nextBankId,
                            [user_id |-> caller,
                             initial_balance |-> Val(balance),
                             current_balance |-> Val(balance)])
            /\ nextBankId' = nextBankId + 1
            /\ Say(s, "success")
    /\ UNCHANGED <<bets, nextBetId, txn, dashBanks, hist, views>>

\* (a delete of the bank's row alone, the wagers left behind)
DeleteBankOnly(s, caller, bankId) ==
    /\ txn = Idle
    /\ IF BankVisible(caller, bankId)
       THEN banks' = Drop(banks, {bankId})
       ELSE UNCHANGED banks
    /\ Say(s, "success")
    /\ UNCHANGED <<bets, nextBankId, nextBetId, txn, dashBanks, hist, views>>

\* Banks.handleDeleteBank: DELETE FROM banks WHERE id = bankId under the
\* caller's policies; bets.bank_id is ON DELETE CASCADE.  A statement that
\* matches no row is no error.
DeleteBank(s, caller, bankId) ==
    /\ txn = Idle
    /\ IF BankVisible(caller, bankId)
       THEN /\ banks' = Drop(banks, {bankId})
            /\ bets' = Drop(bets, {i \in DOMAIN bets : bets[i].bank_id = bankId})
       ELSE UNCHANGED <<banks, bets>>
    /\ Say(s, "success")
    /\ UNCHANGED <<nextBankId, nextBetId, txn, dashBanks, hist, views>>

\* INSERT INTO bets under the caller's identity: BEFORE trigger, then the
\* policy check and the foreign key; an error rolls the statement back,
\* the trigger's UPDATE of banks included.
ApiInsertBet(s, caller, row) ==
    /\ txn = Idle
    /\ nextBetId <= MaxBets
    /\ IF InsertAllowed(caller, row)
       THEN /\ banks' = TriggerBanks(banks, bets, row)
            /\ bets' = Put(bets, nextBetId, TriggerRow(row))
            /\ nextBetId' = nextBetId + 1
            /\ Say(s, "success")
       ELSE /\ Say(s, "error")
            /\ UNCHANGED <<banks, bets, nextBetId>>
    /\ UNCHANGED <<nextBankId, txn, dashBanks, hist, views>>

\* (a validation that forgets the odds)
HandleSubmitAnyOdds(s, caller, amount, odds, bankId, status, betDate) ==
    IF \/ IsNull(amount) \/ Val(amount) <= 0
       \/ IsNull(odds) \/ IsNull(bankId) \/ IsNull(betDate)
    THEN /\ txn = Idle
         /\ Say(s, "amount")
         /\ UNCHANGED <<banks, bets, nextBankId, nextBetId, txn, dashBanks,
                        hist, views>>
    ELSE ApiInsertBet(s, caller,
                      [user_id |-> caller, bank_id |-> Val(bankId),
                       amount |-> Val(amount), odds |-> Val(odds),
                       status |-> status, profit |-> Null,
                       bet_date |-> Val(betDate)])

\* NewBet.handleSubmit: validation of the form (the amount, the odds, the
\* bank, in that order, each with a toast of its own), then the insert
\* with the session's user id and no profit column.  The handler does not
\* validate the date: a value that is no date is refused by the store when
\* it reads the statement, before any row is written or the trigger runs,
\* and the catch shows the store's message, which names the date.
HandleSubmit(s, caller, amount, odds, bankId, status, betDate) ==
    LET Reject(name) ==
            /\ txn = Idle
            /\ Say(s, name)
            /\ UNCHANGED <<banks, bets, nextBankId, nextBetId, txn, dashBanks,
                        hist, views>>
    IN IF IsNull(amount) \/ Val(amount) <= 0 THEN Reject("amount")
       ELSE IF IsNull(odds) \/ Val(odds) < 100 THEN Reject("odds")
       ELSE IF IsNull(bankId) THEN Reject("bank")
       ELSE IF IsNull(betDate) THEN Reject("date")
       ELSE ApiInsertBet(s, caller,
                         [user_id |-> caller, bank_id |-> Val(bankId),
                          amount |-> Val(amount), odds |-> Val(odds),
                          status |-> status, profit |-> Null,
                          bet_date |-> Val(betDate)])

\* UPDATE bets SET <column> = <value> WHERE id = betId under the caller's
\* policies: BEFORE trigger on the new row, then the row is written.  A
\* statement that matches no row fires no trigger and is no error.
ApiUpdateBet(s, caller, betId, column, value) ==
    /\ txn = Idle
    /\ IF BetVisible(caller, betId)
       THEN LET new == [bets[betId] EXCEPT ![column] = value]
            IN /\ banks' = TriggerBanks(banks, bets, new)
               /\ bets' = Put(bets, betId, TriggerRow(new))
       ELSE UNCHANGED <<banks, bets>>
    /\ Say(s, "success")
    /\ UNCHANGED <<nextBankId, nextBetId, txn, dashBanks, hist, views>>

\* The statement and the toast of History.updateBetStatus and of
\* DailyBets.updateBetStatus (HistoryUpdateBetStatus is the handler with the
\* fetch of the page that follows)
UpdateBetStatus(s, caller, betId, newStatus) ==
    ApiUpdateBet(s, caller, betId, "status", newStatus)

\* DELETE FROM bets WHERE id = betId under the caller's policies.  No
\* trigger is declared for DELETE.
ApiDeleteBet(s, caller, betId) ==
    /\ txn = Idle
    /\ IF BetVisible(caller, betId)
       THEN bets' = Drop(bets, {betId})
       ELSE UNCHANGED bets
    /\ Say(s, "success")
    /\ UNCHANGED <<banks, nextBankId, nextBetId, txn, dashBanks, hist, views>>

\* The form of NewBet after parseFloat: the valid stake and odds pairs,
\* and a form whose amount is NaN
Forms ==
    {<<Some(10000), Some(250)>>, <<Some(5000), Some(180)>>,
     <<Null, Some(250)>>}

\* The bank the form's select holds: none, or one of the caller's banks
\* (NewBet.fetchBanks lists the banks the caller's policies show)
BankChoices(c) ==
    {Null} \cup {Some(k) : k \in {j \in DOMAIN banks : banks[j].user_id = c}}

\* The rows a crafted insert sends: any user_id, any bank id, a profit
RawRows(users) ==
    [user_id : users, bank_id : 1..MaxBanks, amount : {20000}, odds : {250},
     status : Statuses, profit : {Some(77700)}, bet_date : {Today}]

\* The columns a crafted update may set, with the values it sends
Patches ==
    {<<"amount", a>> : a \in Stakes} \cup {<<"odds", o>> : o \in OddsSet}
    \cup {<<"profit", p>> : p \in SuppliedProfits}

\* The operations of one client at a time, for the callers `users`, the
\* forms `forms` and the crafted updates `patches`
Ops(users, forms, patches) ==
    \/ \E c \in users, b \in BalanceInputs : CreateBank("s1", c, b)
    \/ \E c \in users, b \in 1..MaxBanks : DeleteBank("s1", c, b)
    \/ \E c \in users, f \in forms, st \in Statuses :
          \E b \in BankChoices(c) :
             HandleSubmit("s1", c, f[1], f[2], b, st, Some(Today))
    \/ \E c \in users, r \in RawRows(Users) : ApiInsertBet("s1", c, r)
    \/ \E c \in users, i \in 1..MaxBets, st \in Statuses :
          UpdateBetStatus("s1", c, i, st)
    \/ \E c \in users, i \in 1..MaxBets, p \in patches :
          ApiUpdateBet("s1", c, i, p[1], p[2])
    \/ \E c \in users, i \in 1..MaxBets : ApiDeleteBet("s1", c, i)

\* One owner, one client
Next == Ops({"A"}, Forms, Patches)

Spec == Init /\ [][Next]_vars

\* Two owners, one client at a time, one stake
NextOwners ==
    Ops(Users, {<<Some(10000), Some(250)>>, <<Null, Some(250)>>},
        {<<"profit", Null>>})

SpecOwners == Init /\ [][NextOwners]_vars

\* One owner, one bank, one wager, over the wide stakes and odds
NextSettle ==
    \/ nextBankId = 1 /\ CreateBank("s1", "A", Some(100000))
    \/ /\ nextBetId = 1
       /\ \E a \in WideStakes, o \in WideOdds, st \in Statuses :
             \E b \in BankChoices("A") :
                HandleSubmit("s1", "A", Some(a), Some(o), b, st, Some(Today))
    \/ \E st \in Statuses : UpdateBetStatus("s1", "A", 1, st)
    \/ \E a \in WideStakes : ApiUpdateBet("s1", "A", 1, "amount", a)
    \/ \E o \in WideOdds : ApiUpdateBet("s1", "A", 1, "odds", o)

SpecSettle == Init /\ [][NextSettle]_vars

\* One owner, one bank, the form and the crafted requests: inserts that
\* send a user_id, a bank id and a profit, updates of any column
NextApi ==
    \/ nextBankId = 1 /\ CreateBank("s1", "A", Some(100000))
    \/ \E st \in Statuses, b \in BankChoices("A") :
          HandleSubmit("s1", "A", Some(10000), Some(250), b, st, Some(Today))
    \/ \E r \in RawRows(Users) : ApiInsertBet("s1", "A", r)
    \/ \E i \in 1..MaxBets, st \in Statuses : UpdateBetStatus("s1", "A", i, st)
    \/ \E i \in 1..MaxBets, p \in Patches :
          ApiUpdateBet("s1", "A", i, p[1], p[2])

SpecApi == Init /\ [][NextApi]_vars

----------------------------------------------------------------------------
(* Statements of several clients at once.  Each write statement is its    *)
(* own transaction (the handlers send one request per write) under the    *)
(* store's default isolation, READ COMMITTED: the trigger's UPDATE of     *)
(* banks reads the bets committed when it starts, takes the lock of the   *)
(* bank's row, or waits for the transaction that holds it to end, and     *)
(* then sets the balance from the sum it has read.  Nothing a statement   *)
(* writes is seen by another client before it commits.                    *)
(*                                                                         *)
(* txn[s] is {} or {t} with t.caller, t.id (of the row updated; {} for    *)
(* an insert), t.new (the row as the trigger returns it), t.sum (the sum   *)
(* its SELECT has read), t.phase ("waiting" for the bank's row, or         *)
(* "written") and t.peer, which only records for the claims whether        *)
(* another write on the same bank was in progress at the same time         *)
(* ("running") and has committed ("committed").                            *)

InFlight(b) ==
    {s \in Sessions : txn[s] /= {} /\ Val(txn[s]).new.bank_id = b}

\* the bank's row is locked by the UPDATE of a statement not yet ended
BankLocked(b) ==
    \E s \in InFlight(b) : Val(txn[s]).phase = "written" /\ b \in DOMAIN banks

\* the bet's row is being written by a statement not yet ended
BetLocked(i) == \E s \in Sessions : txn[s] /= {} /\ Val(txn[s]).id = Some(i)

\* A statement starts: the BEFORE trigger computes NEW.profit and starts
\* its UPDATE of banks
TxBegin(s, caller, id, row) ==
    LET b == row.bank_id
        busy == InFlight(b) /= {}
        t == [caller |-> caller, id |-> id, new |-> TriggerRow(row),
              sum |-> SettledSum(bets, b),
              phase |-> IF BankLocked(b) THEN "waiting" ELSE "written",
              peer |-> IF busy THEN "running" ELSE "none"]
    IN txn' = [x \in Sessions |->
                 IF x = s THEN {t}
                 ELSE IF x \in InFlight(b)
                 THEN {[Val(txn[x]) EXCEPT !.peer = "running"]}
                 ELSE txn[x]]

\* NewBet.handleSubmit with a valid form: the insert is sent.  The row's
\* id (a fresh uuid) is named by the model when the row is committed.
TxSubmit(s, caller, amount, odds, bankId, status) ==
    /\ txn[s] = {}
    /\ nextBetId <= MaxBets
    /\ amount > 0 /\ odds >= 100
    /\ TxBegin(s, caller, Null,
               [user_id |-> caller, bank_id |-> bankId, amount |-> amount,
                odds |-> odds, status |-> status, profit |-> Null,
                bet_date |-> Today])
    /\ UNCHANGED <<banks, bets, nextBankId, nextBetId, toast, dashBanks, hist, views>>

\* updateBetStatus: the update is sent.  A statement on a row that another
\* statement is writing waits for it before its trigger fires, and then
\* starts from the row that statement left.
TxUpdateStatus(s, caller, betId, newStatus) ==
    /\ txn[s] = {}
    /\ BetVisible(caller, betId)
    /\ ~BetLocked(betId)
    /\ TxBegin(s, caller, Some(betId),
               [bets[betId] EXCEPT !.status = newStatus])
    /\ UNCHANGED <<banks, bets, nextBankId, nextBetId, toast, dashBanks, hist, views>>

\* The transaction that held the bank's row has ended: the UPDATE goes on
TxResume(s) ==
    /\ txn[s] /= {}
    /\ Val(txn[s]).phase = "waiting"
    /\ ~BankLocked(Val(txn[s]).new.bank_id)
    /\ txn' = [txn EXCEPT ![s] = {[Val(txn[s]) EXCEPT !.phase = "written"]}]
    /\ UNCHANGED <<banks, bets, nextBankId, nextBetId, toast, dashBanks, hist, views>>

\* The statement commits: the row and the bank's balance become visible
\* together, and the handler shows its success toast
TxCommit(s) ==
    /\ txn[s] /= {}
    /\ LET t == Val(txn[s])
           b == t.new.bank_id
       IN /\ t.phase = "written"
          /\ IsNull(t.id) => nextBetId <= MaxBets
          /\ banks' = SetBalance(banks, b, t.sum)
          /\ bets' = Put(bets, IF IsNull(t.id) THEN nextBetId ELSE Val(t.id),
                         t.new)
          /\ nextBetId' = IF IsNull(t.id) THEN nextBetId + 1 ELSE nextBetId
          /\ txn' = [x \in Sessions |->
                       IF x = s THEN {}
                       ELSE IF x \in InFlight(b) /\ Val(txn[x]).peer = "running"
                       THEN {[Val(txn[x]) EXCEPT !.peer = "committed"]}
                       ELSE txn[x]]
    /\ Say(s, "success")
    /\ UNCHANGED <<nextBankId, dashBanks, hist, views>>

\* (a failure that leaves the trigger's UPDATE of banks behind)
TxFailLeavingBalance(s) ==
    /\ txn[s] /= {}
    /\ LET t == Val(txn[s])
       IN banks' = IF t.phase = "written"
                   THEN SetBalance(banks, t.new.bank_id, t.sum)
                   ELSE banks
    /\ txn' = [txn EXCEPT ![s] = {}]
    /\ Say(s, "error")
    /\ UNCHANGED <<bets, nextBankId, nextBetId, dashBanks, hist, views>>

\* The statement fails (store unavailable, transaction aborted): it is
\* rolled back, the trigger's UPDATE included; the handler's catch shows
\* the error toast and writes nothing
TxFail(s) ==
    /\ txn[s] /= {}
    /\ txn' = [txn EXCEPT ![s] = {}]
    /\ Say(s, "error")
    /\ UNCHANGED <<banks, bets, nextBankId, nextBetId, dashBanks, hist, views>>

\* Dashboard.fetchBanks: the rows of banks the caller's policy shows, as
\* committed when the SELECT runs
FetchBanks(caller) ==
    /\ dashBanks' = [b \in {k \in DOMAIN banks : banks[k].user_id = caller}
                       |-> banks[b]]
    /\ UNCHANGED <<banks, bets, nextBankId, nextBetId, toast, txn, hist, views>>

\* the outcomes the concurrent clients write
TxnStatuses == {"won", "open"}

\* One owner and one bank, two clients, one stake
Writes ==
    \/ nextBankId = 1 /\ CreateBank("s1", "A", Some(100000))
    \/ \E s \in Sessions, st \in TxnStatuses, b \in DOMAIN banks :
          TxSubmit(s, "A", 10000, 250, b, st)
    \/ \E s \in Sessions, i \in 1..MaxBets, st \in TxnStatuses :
          TxUpdateStatus(s, "A", i, st)
    \/ \E s \in Sessions : TxResume(s)
    \/ \E s \in Sessions : TxCommit(s)
    \/ \E s \in Sessions : TxFail(s)

NextTxn == Writes

SpecTxn == Init /\ [][NextTxn]_vars

\* The same with the Dashboard reading between the steps
NextRead == Writes \/ FetchBanks("A")

SpecRead == Init /\ [][NextRead]_vars

----------------------------------------------------------------------------
(* The ledger claims *)

BetsOf(tbl, b) == {i \in DOMAIN tbl : tbl[i].bank_id = b}

\* What the balance of bank b is if it agrees with the stored bets
LedgerBalance(banksTbl, betsTbl, b) ==
    banksTbl[b].initial_balance + SettledSum(betsTbl, b)

\* The ids written by the step: inserted, or stored with other fields
Written == {i \in DOMAIN bets' : i \notin DOMAIN bets \/ bets'[i] /= bets[i]}

\* C1: after every operation of a sequence of wager creates, updates and
\* deletes, each bankroll's current_balance is its initial_balance plus
\* the sum of profit over its wagers whose outcome is not open.
C1_BalanceIsLedger ==
    \A b \in DOMAIN banks :
        banks[b].current_balance = LedgerBalance(banks, bets, b)

\* stake * odds - stake of a stored row, in hundredths of a cent
ExactProfit(row) == row.amount * row.odds - 100 * row.amount

\* C2 (as amended): for stake > 0 and odds >= 1, the stored profit of a
\* won wager is stake * odds - stake rounded to the cent (halves upward),
\* that of a lost wager is -stake and that of an open wager is 0.
C2_SettleRounded ==
    \A i \in DOMAIN bets :
        (bets[i].amount > 0 /\ bets[i].odds >= 100)
        => \E p \in bets[i].profit :
              /\ bets[i].status = "won"
                 => /\ 100 * p - 50 <= ExactProfit(bets[i])
                    /\ ExactProfit(bets[i]) < 100 * p + 50
              /\ bets[i].status = "lost" => p = -bets[i].amount
              /\ bets[i].status = "open" => p = 0

\* A won wager is stored whose stake * odds has a fraction of a cent
C2_Witness ==
    \E i \in DOMAIN bets :
        /\ bets[i].status = "won"
        /\ ExactProfit(bets[i]) % 100 /= 0
        /\ bets[i].profit /= Null

\* C2 (as stated): the stored profit is stake * odds - stake exactly when
\* won, -stake when lost and 0 when open.
C2_SettleExact ==
    \A i \in DOMAIN bets :
        (bets[i].amount > 0 /\ bets[i].odds >= 100)
        => \E p \in bets[i].profit :
              /\ bets[i].status = "won" => 100 * p = ExactProfit(bets[i])
              /\ bets[i].status = "lost" => p = -bets[i].amount
              /\ bets[i].status = "open" => p = 0

\* C3: profit is never independently writable: whatever the writes sent,
\* the profit column among them, every stored wager's profit is the
\* settlement of its stored stake, odds and outcome.
C3_ProfitIsSettled ==
    \A i \in DOMAIN bets : bets[i].profit = TriggerProfit(bets[i])

\* A wager that only a crafted insert sending profit 777.00 creates (stake
\* 200.00) is stored won with the settled profit 300.00
C3_Witness ==
    \E i \in DOMAIN bets :
        /\ bets[i].amount = 20000
        /\ bets[i].status = "won"
        /\ bets[i].profit = Some(30000)

\* C4: a step that deletes a settled wager leaves its bankroll's
\* current_balance equal to initial_balance plus the profit of the
\* settled wagers that remain.
C4_DeleteReconciles ==
    [][\A i \in DOMAIN bets :
          (/\ i \notin DOMAIN bets'
           /\ bets[i].status /= "open"
           /\ bets[i].bank_id \in DOMAIN banks')
          => banks'[bets[i].bank_id].current_balance
               = LedgerBalance(banks', bets', bets[i].bank_id)]_vars

IsWager(row, b, status, amount, odds) ==
    /\ row.bank_id = b
    /\ row.status = status
    /\ row.amount = amount
    /\ row.odds = odds

\* C8: on a bankroll of 1000.00 with no wagers, the insert of a won wager
\* (100.00 at 2.50) stores profit 150.00 and makes the balance 1150.00;
\* the insert of a lost wager (50.00 at 1.80) after it stores profit -50.00
\* and makes the balance 1100.00.
C8_ScenarioInserts ==
    [][\A b \in DOMAIN banks, i \in DOMAIN bets' \ DOMAIN bets :
          /\ (/\ banks[b].initial_balance = 100000
              /\ banks[b].current_balance = 100000
              /\ BetsOf(bets, b) = {}
              /\ IsWager(bets'[i], b, "won", 10000, 250))
             => /\ bets'[i].profit = Some(15000)
                /\ banks'[b].current_balance = 115000
          /\ (/\ banks[b].initial_balance = 100000
              /\ \E j \in DOMAIN bets :
                    /\ BetsOf(bets, b) = {j}
                    /\ IsWager(bets[j], b, "won", 10000, 250)
              /\ IsWager(bets'[i], b, "lost", 5000, 180))
             => /\ bets'[i].profit = Some(-5000)
                /\ banks'[b].current_balance = 110000]_vars

\* C9: on the bankroll of 1000.00 holding the won wager (100.00 at 2.50)
\* and the lost wager (50.00 at 1.80), the update of the won wager to open
\* makes the balance 1050.00.
C9_ScenarioReopen ==
    [][\A b \in DOMAIN banks, i \in DOMAIN bets, j \in DOMAIN bets :
          (/\ banks[b].initial_balance = 100000
           /\ BetsOf(bets, b) = {i, j}
           /\ IsWager(bets[i], b, "won", 10000, 250)
           /\ IsWager(bets[j], b, "lost", 5000, 180)
           /\ i \in DOMAIN bets'
           /\ IsWager(bets'[i], b, "open", 10000, 250)
           /\ b \in DOMAIN banks')
          => banks'[b].current_balance = 105000]_vars

\* C10: a step that writes a wager under identity A (the stored user_id of
\* the row: the policies admit no other) changes no bankroll owned by a
\* different identity.
C10_OwnerIsolation ==
    [][\A i \in Written, b \in DOMAIN banks :
          (b \in DOMAIN banks' /\ banks'[b] /= banks[b])
          => banks[b].user_id = bets'[i].user_id]_vars

----------------------------------------------------------------------------
(* The claims on concurrent writes and on reads *)

\* the step ends the statement of client s with that toast
Ended(s, variant) ==
    /\ txn[s] /= {}
    /\ txn'[s] = {}
    /\ toast'[s] = variant

\* C5: when two writes on the same bankroll were in progress at the same
\* time, then once both have committed the bankroll's current_balance is
\* its initial_balance plus the profit of all its settled wagers.
C5_ConcurrentWritesSerialize ==
    [][\A s \in Sessions :
          (/\ Ended(s, "success")
           /\ Val(txn[s]).peer = "committed"
           /\ Val(txn[s]).new.bank_id \in DOMAIN banks')
          => banks'[Val(txn[s]).new.bank_id].current_balance
               = LedgerBalance(banks', bets', Val(txn[s]).new.bank_id)]_vars

\* C6: a write that fails shows nothing: only the step that commits a
\* statement changes the stored wagers or a bankroll's balance, so every
\* step of a statement that ends in an error, the error itself included,
\* leaves the wager set, the wagers' fields and the balances as they were.
C6_FailedWriteInvisible ==
    [][(/\ nextBankId' = nextBankId
        /\ ~ \E s \in Sessions : Ended(s, "success"))
       => (banks' = banks /\ bets' = bets)]_vars

\* A client's write has failed and nothing is in progress, while wagers
\* are stored and the bankroll's balance is still the one it was created
\* with, not the one the stored wagers give
C6_Witness ==
    \E s \in Sessions, b \in DOMAIN banks :
        /\ toast[s] = "error"
        /\ txn = Idle
        /\ bets /= <<>>
        /\ banks[b].current_balance = 100000
        /\ LedgerBalance(banks, bets, b) /= 100000

\* C7: every read of the bankroll list returns, for each bankroll, a
\* balance that agrees with the profit of the wagers committed when it
\* reads: none whose profit is stored and not yet in the balance.
C7_ReadsAgree ==
    [][dashBanks' /= dashBanks
       => \A b \in DOMAIN dashBanks' :
             dashBanks'[b].current_balance
               = LedgerBalance(dashBanks', bets', b)]_vars

----------------------------------------------------------------------------
(* Requests on rows the caller cannot reach *)

\* Client s1 is owner A's, working on A's rows.  Client s2 shows a list
\* that is out of date, or is another owner's: every request it sends
\* names a wager or a bankroll that is deleted or is not the caller's.
NextStale ==
    \/ \E b \in BalanceInputs : CreateBank("s1", "A", b)
    \/ \E b \in 1..MaxBanks : DeleteBank("s1", "A", b)
    \/ \E st \in Statuses, b \in BankChoices("A") :
          HandleSubmit("s1", "A", Some(10000), Some(250), b, st, Some(Today))
    \/ \E i \in 1..MaxBets : ApiDeleteBet("s1", "A", i)
    \/ \E c \in Users, i \in 1..MaxBets, st \in Statuses :
          ~BetVisible(c, i) /\ UpdateBetStatus("s2", c, i, st)
    \/ \E c \in Users, b \in 1..MaxBanks :
          ~BankVisible(c, b) /\ DeleteBank("s2", c, b)

SpecStale == Init /\ [][NextStale]_vars

\* C11: an updateWagerOutcome or deleteBankroll on an id that is deleted
\* or is not the caller's is never reported as success: client s2, which
\* sends only such requests, never shows the success toast.
C11_MissingTargetFails == toast["s2"] /= "success"

----------------------------------------------------------------------------
(* Deleting a bankroll *)

\* One owner: bankrolls created and deleted, wagers inserted by the form
\* and by crafted rows that name any bank id, existing or not
NextCascade ==
    \/ CreateBank("s1", "A", Some(100000))
    \/ \E b \in 1..MaxBanks : DeleteBank("s1", "A", b)
    \/ \E st \in Statuses, b \in BankChoices("A") :
          HandleSubmit("s1", "A", Some(10000), Some(250), b, st, Some(Today))
    \/ \E r \in RawRows({"A"}) : ApiInsertBet("s1", "A", r)

SpecCascade == Init /\ [][NextCascade]_vars

\* C12: deleting a bankroll removes it and every wager that references it
\* in the same step: in every reachable state each stored wager references
\* a stored bankroll.
C12_NoOrphanWager ==
    \A i \in DOMAIN bets : bets[i].bank_id \in DOMAIN banks

\* Every wager the bounds allow was inserted, a bankroll is stored and no
\* wager is: the wagers went with the deleted bankroll that held them
C12_Witness ==
    /\ nextBetId = MaxBets + 1
    /\ bets = <<>>
    /\ banks /= <<>>

----------------------------------------------------------------------------
(* The reconciliation as a function of the tables *)

\* C13: reconciliation is idempotent: on any reachable tables, the
\* trigger's recomputation for the bankroll of a stored wager, run a
\* second time with the wagers as they are, gives the banks table that the
\* first run gave.
C13_ReconcileIdempotent ==
    \A i \in DOMAIN bets :
        LET once == TriggerBanks(banks, bets, bets[i])
        IN TriggerBanks(once, bets, bets[i]) = once

\* The stored balance of a wager's bankroll is not the one its
\* recomputation gives: the first run changes it
C13_Witness ==
    \E i \in DOMAIN bets : TriggerBanks(banks, bets, bets[i]) /= banks

----------------------------------------------------------------------------
(* The profit of an open wager *)

\* C14: a wager whose outcome is open carries an absent profit, not a
\* stored number, whether it was created open or moved back to open.
C14_OpenProfitAbsent ==
    \A i \in DOMAIN bets : bets[i].status = "open" => IsNull(bets[i].profit)

----------------------------------------------------------------------------
(* The outcome of a wager *)

\* C15: no outcome is terminal, and every step that moves a stored wager
\* from one outcome to another stores the profit settled for the new
\* outcome and leaves its bankroll's balance reconciled with the wagers.
C15_TransitionReconciles ==
    [][\A i \in DOMAIN bets \cap DOMAIN bets' :
          (/\ bets'[i].status /= bets[i].status
           /\ bets'[i].bank_id \in DOMAIN banks')
          => /\ bets'[i].profit = TriggerProfit(bets'[i])
             /\ banks'[bets'[i].bank_id].current_balance
                  = LedgerBalance(banks', bets', bets'[i].bank_id)]_vars

----------------------------------------------------------------------------
(* The balances of a bankroll under the pages' operations *)

\* The writes the pages send: handleCreateBank, handleDeleteBank,
\* NewBet.handleSubmit and updateBetStatus, for one owner
NextPages ==
    \/ \E b \in BalanceInputs : CreateBank("s1", "A", b)
    \/ \E b \in 1..MaxBanks : DeleteBank("s1", "A", b)
    \/ \E st \in Statuses, b \in BankChoices("A") :
          HandleSubmit("s1", "A", Some(10000), Some(250), b, st, Some(Today))
    \/ \E i \in 1..MaxBets, st \in Statuses : UpdateBetStatus("s1", "A", i, st)

SpecPages == Init /\ [][NextPages]_vars

----------------------------------------------------------------------------
(* Creating a bankroll *)

\* what the balance field may hold after parseFloat: NaN, a negative
\* amount, zero, one cent, 1000.00
CreateInputs == {Null, Some(-1), Some(0), Some(1), Some(100000)}

\* Two owners creating and deleting bankrolls, from either client
NextCreate ==
    \/ \E s \in Sessions, c \in Users, b \in CreateInputs : CreateBank(s, c, b)
    \/ \E c \in Users, k \in 1..MaxBanks : DeleteBank("s1", c, k)

SpecCreate == Init /\ [][NextCreate]_vars

\* the step stores a new bankroll with both balances v
StoresBank(v) ==
    /\ nextBankId \in DOMAIN banks'
    /\ banks'[nextBankId].initial_balance = v
    /\ banks'[nextBankId].current_balance = v

\* C17: a step of handleCreateBank with a balance b >= 0 stores a bankroll
\* whose initial_balance and current_balance are both b.
C17_CreateStoresBalance ==
    [][\A s \in Sessions, c \in Users, b \in CreateInputs :
          (CreateBank(s, c, b) /\ b /= Null /\ Val(b) >= 0)
          => StoresBank(Val(b))]_vars

\* Bankrolls of 0.00 and of 1000.00 are stored
C17_Witness ==
    \E j \in DOMAIN banks, k \in DOMAIN banks :
        /\ banks[j].initial_balance = 0
        /\ banks[j].current_balance = 0
        /\ banks[k].initial_balance = 100000
        /\ banks[k].current_balance = 100000

----------------------------------------------------------------------------
(* The validation of a new wager *)

\* The form of NewBet after parseFloat: valid pairs (the smallest stake and
\* odds among them) and forms that break one rule or two
ValidForms == {<<Some(10000), Some(250)>>, <<Some(1), Some(100)>>}
BrokenForms ==
    {<<Null, Some(250)>>, <<Some(0), Some(250)>>, <<Some(-5000), Some(250)>>,
     <<Some(10000), Null>>, <<Some(10000), Some(99)>>, <<Some(0), Some(99)>>}
PageForms == ValidForms \cup BrokenForms

\* The date field: a date, or a value that is no date
FormDates == {Null, Some(Today)}

\* One owner and one bank: the form of NewBet submitted with valid and
\* with broken stakes and odds, with and without a bank and a date
NextForm ==
    \/ nextBankId = 1 /\ CreateBank("s1", "A", Some(100000))
    \/ \E f \in ValidForms, st \in Statuses, d \in FormDates :
          \E b \in BankChoices("A") :
             HandleSubmit("s1", "A", f[1], f[2], b, st, d)
    \/ \E f \in BrokenForms, d \in FormDates :
          \E b \in BankChoices("A") :
             HandleSubmit("s1", "A", f[1], f[2], b, "open", d)

SpecForm == Init /\ [][NextForm]_vars

\* the form breaks the rule of that name
Breaks(name, amount, odds, bankId, betDate) ==
    CASE name = "amount" -> IsNull(amount) \/ Val(amount) <= 0
      [] name = "odds" -> IsNull(odds) \/ Val(odds) < 100
      [] name = "bank" -> IsNull(bankId)
      [] name = "date" -> IsNull(betDate)
      [] OTHER -> FALSE

\* the form breaks a rule
Invalid(amount, odds, bankId, betDate) ==
    \E n \in {"amount", "odds", "bank", "date"} :
        Breaks(n, amount, odds, bankId, betDate)

----------------------------------------------------------------------------
(* The History page *)

ITEMS_PER_PAGE == 10

\* the most wagers the table of the History specification holds
MaxRows == 21

Filters == {"all"} \cup Statuses

Min(a, b) == IF a <= b THEN a ELSE b

\* The rows of the query of fetchBets: those of the selected bank that the
\* policy "Users can view their own bets" shows, of the filtered status
Matching(tbl, caller, bank, filter) ==
    {i \in DOMAIN tbl :
        /\ tbl[i].user_id = caller
        /\ tbl[i].bank_id = bank
        /\ filter = "all" \/ tbl[i].status = filter}

\* ORDER BY bet_date DESC, created_at DESC: row i comes before row j.
\* created_at is NOW() at the insert and the handlers insert one row per
\* statement: the ids of the model, given in the order of the inserts,
\* order the rows as created_at does.
Before(tbl, i, j) ==
    \/ tbl[i].bet_date > tbl[j].bet_date
    \/ tbl[i].bet_date = tbl[j].bet_date /\ i > j

\* the rows `ids` in that order
Ordered(tbl, ids) ==
    LET rank == [i \in ids |-> Cardinality({j \in ids : Before(tbl, j, i)})]
    IN [k \in 1..Cardinality(ids) |-> CHOOSE i \in ids : rank[i] = k - 1]

\* (a window that starts one row late)
RangeShifted(rows, from, to) == SubSeq(rows, from + 2, Min(to + 2, Len(rows)))

\* .range(from, to): the rows at offsets from..to of the ordered rows
Range(rows, from, to) == SubSeq(rows, from + 1, Min(to + 1, Len(rows)))

\* The answer to the query of fetchBets: the rows of the page and the
\* exact count, or none.  The query asks for the exact count: the store
\* refuses a range whose offset is beyond the count (range not
\* satisfiable).
FetchAnswer(tbl, caller, bank, filter, page) ==
    LET rows == Ordered(tbl, Matching(tbl, caller, bank, filter))
        from == (page - 1) * ITEMS_PER_PAGE
        to == page * ITEMS_PER_PAGE - 1
    IN IF from > Len(rows) THEN Null
       ELSE Some([bets |-> Range(rows, from, to), totalBets |-> Len(rows)])

\* History after fetchBets has run for the given bank, filter and page
\* over the table tbl: setBets and setTotalBets on an answer; on a refusal
\* the catch shows the error toast, and the list and the count stay as
\* they were.
AfterFetch(tbl, caller, bank, filter, page) ==
    LET answer == FetchAnswer(tbl, caller, bank, filter, page)
    IN IF IsNull(answer)
       THEN [hist EXCEPT !.selectedBank = Some(bank),
                         !.statusFilter = filter,
                         !.currentPage = page]
       ELSE [selectedBank |-> Some(bank),
             statusFilter |-> filter,
             currentPage |-> page,
             bets |-> Val(answer).bets,
             totalBets |-> Val(answer).totalBets]

\* History.fetchBets for the given bank, filter and page (the state the
\* effect runs with)
FetchBets(s, caller, bank, filter, page) ==
    /\ hist' = AfterFetch(bets, caller, bank, filter, page)
    /\ IF IsNull(FetchAnswer(bets, caller, bank, filter, page))
       THEN Say(s, "error")
       ELSE UNCHANGED toast
    /\ UNCHANGED <<banks, bets, nextBankId, nextBetId, txn, dashBanks, views>>

\* totalPages = Math.ceil(totalBets / ITEMS_PER_PAGE)
TotalPages == (hist.totalBets + ITEMS_PER_PAGE - 1) \div ITEMS_PER_PAGE

\* History is opened: fetchBanks selects the newest of the caller's banks,
\* if there is one, and the effect fetches the first page
HistoryMount(s, caller) ==
    /\ hist.selectedBank = Null
    /\ LET mine == {b \in DOMAIN banks : banks[b].user_id = caller}
       IN /\ mine /= {}
          /\ FetchBets(s, caller, CHOOSE b \in mine : \A c \in mine : c <= b,
                       hist.statusFilter, hist.currentPage)

\* (a bank select that leaves the page where it is)
SelectBankKeepPage(s, caller, bank) ==
    /\ hist.selectedBank /= Null
    /\ hist.selectedBank /= Some(bank)
    /\ BankVisible(caller, bank)
    /\ FetchBets(s, caller, bank, hist.statusFilter, hist.currentPage)

\* the bank select: setSelectedBank, setCurrentPage(1), and the effect
SelectBank(s, caller, bank) ==
    /\ hist.selectedBank /= Null
    /\ hist.selectedBank /= Some(bank)
    /\ BankVisible(caller, bank)
    /\ FetchBets(s, caller, bank, hist.statusFilter, 1)

\* the status select: setStatusFilter, setCurrentPage(1), and the effect
SelectStatusFilter(s, caller, filter) ==
    /\ hist.selectedBank /= Null
    /\ hist.statusFilter /= filter
    /\ FetchBets(s, caller, Val(hist.selectedBank), filter, 1)

\* the buttons of the pagination, shown while the list is not empty and
\* there is more than one page
PreviousPage(s, caller) ==
    /\ Len(hist.bets) > 0
    /\ TotalPages > 1
    /\ hist.currentPage /= 1
    /\ FetchBets(s, caller, Val(hist.selectedBank), hist.statusFilter,
                 hist.currentPage - 1)

NextPage(s, caller) ==
    /\ Len(hist.bets) > 0
    /\ TotalPages > 1
    /\ hist.currentPage /= TotalPages
    /\ FetchBets(s, caller, Val(hist.selectedBank), hist.statusFilter,
                 Min(TotalPages, hist.currentPage + 1))

\* The tables the History specification starts from: two banks of owner A
\* and the wagers 1..n, inserted in that order by the form; either all
\* open, of today and on bank 1, or of mixed banks, outcomes and dates
Patterns == {"plain", "mixed"}

HistoryRow(i, pattern) ==
    TriggerRow(
        [user_id |-> "A",
         bank_id |-> IF pattern = "mixed" /\ i % 4 = 0 THEN 2 ELSE 1,
         amount |-> 10000, odds |-> 250,
         status |-> IF pattern = "plain" THEN "open"
                    ELSE IF i % 3 = 0 THEN "won"
                    ELSE IF i % 3 = 1 THEN "lost" ELSE "open",
         profit |-> Null,
         bet_date |-> IF pattern = "plain" THEN Today
                      ELSE Today + (i % 2)])

HistoryBets(n, pattern) == [i \in 1..n |-> HistoryRow(i, pattern)]

\* the balance the trigger of the last insert on a bank has left: the
\* initial balance plus the settled profit of the rows inserted before it
HistoryBanks(n, pattern) ==
    [b \in 1..2 |->
        LET mine == {i \in 1..n : HistoryRow(i, pattern).bank_id = b}
            last == CHOOSE i \in mine : \A j \in mine : j <= i
        IN [user_id |-> "A", initial_balance |-> 100000,
            current_balance |->
                IF mine = {} THEN 100000
                ELSE 100000 + SettledSum(HistoryBets(last - 1, pattern), b)]]

InitHistory ==
    \E n \in 0..MaxRows, pattern \in Patterns :
        /\ banks = HistoryBanks(n, pattern)
        /\ bets = HistoryBets(n, pattern)
        /\ nextBankId = 3
        /\ nextBetId = n + 1
        /\ toast = [s \in Sessions |-> "none"]
        /\ txn = Idle
        /\ dashBanks = <<>>
        /\ hist = NoHistory
        /\ dailyStats = NoStats
        /\ daily = NoDaily
        /\ fetching = {}
        /\ layout = NoLayout

\* Owner A on the History page of client s1, while client s2 deletes banks
NextHistory ==
    \/ HistoryMount("s1", "A")
    \/ \E b \in 1..2 : SelectBank("s1", "A", b)
    \/ \E f \in Filters : SelectStatusFilter("s1", "A", f)
    \/ PreviousPage("s1", "A")
    \/ NextPage("s1", "A")
    \/ \E b \in 1..2 : DeleteBank("s2", "A", b)

SpecHistory == InitHistory /\ [][NextHistory]_vars

\* the step is fetchBets for the bank, the filter and the page that History
\* holds after it
Fetched ==
    /\ hist'.selectedBank /= Null
    /\ FetchBets("s1", "A", Val(hist'.selectedBank), hist'.statusFilter,
                 hist'.currentPage)

\* the wagers that match the bank and the filter History holds after the
\* step
Matched == Matching(bets', "A", Val(hist'.selectedBank), hist'.statusFilter)

\* C19: a fetch of page p over T matching wagers leaves History with
\* min(10, T - 10 * (p - 1)) wagers when p <= ceil(T / 10) and with none
\* when p is beyond, and with the count T.
C19_PageSize ==
    [][Fetched
       => LET T == Cardinality(Matched)
              p == hist'.currentPage
          IN /\ hist'.totalBets = T
             /\ Len(hist'.bets)
                  = IF p <= (T + ITEMS_PER_PAGE - 1) \div ITEMS_PER_PAGE
                    THEN Min(ITEMS_PER_PAGE, T - ITEMS_PER_PAGE * (p - 1))
                    ELSE 0]_vars

----------------------------------------------------------------------------
(* The selection of the History page *)

\* the first page of the wagers of `bank` that match `filter`
FirstPage(bank, filter) ==
    Range(Ordered(bets, Matching(bets, "A", bank, filter)),
          0, ITEMS_PER_PAGE - 1)

\* C21: selecting another bankroll or another outcome filter in History
\* sets the current page to 1, and the page then fetched is page 1 of the
\* new selection.
C21_SelectionResetsPage ==
    [][/\ \A b \in 1..2 :
            SelectBank("s1", "A", b)
            => /\ hist'.selectedBank = Some(b)
               /\ hist'.statusFilter = hist.statusFilter
               /\ hist'.currentPage = 1
               /\ hist'.bets = FirstPage(b, hist.statusFilter)
       /\ \A f \in Filters :
            SelectStatusFilter("s1", "A", f)
            => /\ hist'.selectedBank = hist.selectedBank
               /\ hist'.statusFilter = f
               /\ hist'.currentPage = 1
               /\ hist'.bets = FirstPage(Val(hist.selectedBank), f)]_vars

\* History shows the first page of a bank and a filter that were both
\* selected by hand: the mount selects bank 2 while it exists, and the
\* filter "all"
C21_Witness ==
    /\ 2 \in DOMAIN banks
    /\ hist.selectedBank = Some(1)
    /\ hist.statusFilter = "won"
    /\ hist.currentPage = 1
    /\ Len(hist.bets) > 0

----------------------------------------------------------------------------
(* The daily aggregates of the Dashboard and of DailyBets *)

\* .eq("bank_id", bank).eq("bet_date", date) under the policy "Users can
\* view their own bets"
DayIds(tbl, caller, bank, date) ==
    {i \in DOMAIN tbl :
        /\ tbl[i].user_id = caller
        /\ tbl[i].bank_id = bank
        /\ tbl[i].bet_date = date}

\* the rows of the answer, newest first: DailyBets orders by created_at
\* descending, the Dashboard gives no order (its reduce adds and counts,
\* so the order does not show)
DayRows(tbl, caller, bank, date) ==
    LET ids == DayIds(tbl, caller, bank, date)
        seq == Ordered([i \in ids |-> [bet_date |-> date]], ids)
    IN [k \in 1..Len(seq) |-> tbl[seq[k]]]

\* bet.profit || 0
ProfitOrZero(bet) == IF IsNull(bet.profit) THEN 0 ELSE Val(bet.profit)

\* (a reduce that leaves the lost stakes out of the net profit)
RECURSIVE StatsOfWon(_)
StatsOfWon(data) ==
    IF data = <<>>
    THEN [total_bets |-> 0, total_won |-> 0, total_lost |-> 0,
          net_profit |-> 0]
    ELSE LET acc == StatsOfWon(SubSeq(data, 1, Len(data) - 1))
             bet == data[Len(data)]
         IN IF bet.status = "won"
            THEN [acc EXCEPT !.total_bets = @ + 1, !.total_won = @ + 1,
                             !.net_profit = @ + ProfitOrZero(bet)]
            ELSE IF bet.status = "lost"
            THEN [acc EXCEPT !.total_bets = @ + 1, !.total_lost = @ + 1]
            ELSE [acc EXCEPT !.total_bets = @ + 1]

\* the reduce of Dashboard.fetchDailyStats over the rows `data`
RECURSIVE StatsOf(_)
StatsOf(data) ==
    IF data = <<>>
    THEN [total_bets |-> 0, total_won |-> 0, total_lost |-> 0,
          net_profit |-> 0]
    ELSE LET acc == StatsOf(SubSeq(data, 1, Len(data) - 1))
             bet == data[Len(data)]
         IN IF bet.status = "won"
            THEN [acc EXCEPT !.total_bets = @ + 1, !.total_won = @ + 1,
                             !.net_profit = @ + ProfitOrZero(bet)]
            ELSE IF bet.status = "lost"
            THEN [acc EXCEPT !.total_bets = @ + 1, !.total_lost = @ + 1,
                             !.net_profit = @ + ProfitOrZero(bet)]
            ELSE [acc EXCEPT !.total_bets = @ + 1]

\* (a summary that adds the profit of every row, the open ones too)
RECURSIVE CalculateDailySummaryAll(_)
CalculateDailySummaryAll(data) ==
    IF data = <<>>
    THEN [total |-> 0, won |-> 0, lost |-> 0, profit |-> 0, wagered |-> 0]
    ELSE LET acc == CalculateDailySummaryAll(SubSeq(data, 1, Len(data) - 1))
             bet == data[Len(data)]
         IN [total |-> acc.total + 1,
             won |-> acc.won + IF bet.status = "won" THEN 1 ELSE 0,
             lost |-> acc.lost + IF bet.status = "lost" THEN 1 ELSE 0,
             profit |-> acc.profit + ProfitOrZero(bet),
             wagered |-> acc.wagered + bet.amount]

\* DailyBets.calculateDailySummary over the rows `data` (the `bets` state)
RECURSIVE CalculateDailySummary(_)
CalculateDailySummary(data) ==
    IF data = <<>>
    THEN [total |-> 0, won |-> 0, lost |-> 0, profit |-> 0, wagered |-> 0]
    ELSE LET acc == CalculateDailySummary(SubSeq(data, 1, Len(data) - 1))
             bet == data[Len(data)]
             counted ==
                 IF bet.status = "won"
                 THEN [acc EXCEPT !.total = @ + 1, !.won = @ + 1,
                                  !.profit = @ + ProfitOrZero(bet)]
                 ELSE IF bet.status = "lost"
                 THEN [acc EXCEPT !.total = @ + 1, !.lost = @ + 1,
                                  !.profit = @ + ProfitOrZero(bet)]
                 ELSE [acc EXCEPT !.total = @ + 1]
         IN [counted EXCEPT !.wagered = @ + bet.amount]

\* Dashboard.fetchDailyStats(bankId): the rows of the bank whose bet_date
\* is today, reduced and stored by setDailyStats.  A query that matches no
\* row is answered with no rows and no error.
FetchDailyStats(s, caller, bankId) ==
    /\ dailyStats' = StatsOf(DayRows(bets, caller, bankId, Today))
    /\ UNCHANGED <<banks, bets, nextBankId, nextBetId, toast, txn,
                   dashBanks, hist, daily, fetching, layout>>

\* DailyBets.fetchBets for the selected bank and date (the effect that
\* follows a selection)
DailyFetchBets(s, caller, bank, date) ==
    /\ daily' = [selectedBank |-> Some(bank), selectedDate |-> date,
                 bets |-> DayRows(bets, caller, bank, date)]
    /\ UNCHANGED <<banks, bets, nextBankId, nextBetId, toast, txn,
                   dashBanks, hist, dailyStats, fetching, layout>>

\* the dates the date input of DailyBets is set to
Dates == {Today, Today + 1}

\* the wager whose outcome the specification changes
Settled == {2}

\* the most wagers the table of the daily specification holds
MaxDayRows == 10

\* the tables of the History specification, of up to MaxDayRows wagers
InitDaily ==
    \E n \in 0..MaxDayRows, pattern \in Patterns :
        /\ banks = HistoryBanks(n, pattern)
        /\ bets = HistoryBets(n, pattern)
        /\ nextBankId = 3
        /\ nextBetId = n + 1
        /\ toast = [s \in Sessions |-> "none"]
        /\ txn = Idle
        /\ dashBanks = <<>>
        /\ hist = NoHistory
        /\ dailyStats = NoStats
        /\ daily = NoDaily
        /\ fetching = {}
        /\ layout = NoLayout

\* The two pages read the tables while the outcome of a wager is changed
NextDaily ==
    \/ \E b \in 1..2 : FetchDailyStats("s1", "A", b)
    \/ \E b \in 1..2, d \in Dates : DailyFetchBets("s1", "A", b, d)
    \/ \E i \in Settled, st \in Statuses : UpdateBetStatus("s2", "A", i, st)

SpecDaily == InitDaily /\ [][NextDaily]_vars

\* C22: the daily aggregate of a bankroll and a date is the number of its
\* wagers of that date, the numbers of those that are won and that are
\* lost, and the sum of the profit of those that are not open; with no such
\* wager it is all zeros, and no error is shown.
C22_DailyStats ==
    [][/\ \A b \in 1..2 :
            FetchDailyStats("s1", "A", b)
            => LET D == DayIds(bets, "A", b, Today)
               IN /\ dailyStats'.total_bets = Cardinality(D)
                  /\ dailyStats'.total_won
                       = Cardinality({i \in D : bets[i].status = "won"})
                  /\ dailyStats'.total_lost
                       = Cardinality({i \in D : bets[i].status = "lost"})
                  /\ dailyStats'.net_profit
                       = SumProfit(bets, {i \in D : bets[i].status /= "open"})
                  /\ D = {} => dailyStats' = NoStats
                  /\ toast' = toast
       /\ \A b \in 1..2, d \in Dates :
            DailyFetchBets("s1", "A", b, d)
            => LET D == DayIds(bets, "A", b, d)
                   summary == CalculateDailySummary(daily'.bets)
               IN /\ summary.total = Cardinality(D)
                  /\ summary.won
                       = Cardinality({i \in D : bets[i].status = "won"})
                  /\ summary.lost
                       = Cardinality({i \in D : bets[i].status = "lost"})
                  /\ summary.profit
                       = SumProfit(bets, {i \in D : bets[i].status /= "open"})
                  /\ toast' = toast]_vars

\* the Dashboard shows the aggregate of a day with won, lost and open
\* wagers and a net profit that is not zero
C22_Witness ==
    /\ dailyStats.total_won > 0
    /\ dailyStats.total_lost > 0
    /\ dailyStats.total_bets > dailyStats.total_won + dailyStats.total_lost
    /\ dailyStats.net_profit /= 0

----------------------------------------------------------------------------
(* The balance a wager write leaves *)

\* the step leaves bank b the balance of the rows stored before it
PriorLedger(b) ==
    banks'[b].current_balance
      = banks[b].initial_balance + SettledSum(bets, b)

\* the step is updateBetStatus of the stored wager i, for the outcome the
\* wager has after it
StatusUpdateOf(i) ==
    /\ nextBetId' = nextBetId
    /\ DOMAIN bets' = DOMAIN bets
    /\ DOMAIN banks' = DOMAIN banks
    /\ BetVisible("A", i)
    /\ UpdateBetStatus("s1", "A", i, bets'[i].status)

\* C23: right after a wager insert or update commits, the current_balance
\* of its bankroll is initial_balance plus the sum of profit over the
\* bankroll's non-open wagers as they were stored before the write: the row
\* written counts with its previous status and profit, and not at all on
\* an insert.
C23_BalanceIsPriorLedger ==
    [][/\ nextBetId' /= nextBetId => PriorLedger(bets'[nextBetId].bank_id)
       /\ \A i \in DOMAIN bets \cap DOMAIN bets' :
            StatusUpdateOf(i) => PriorLedger(bets[i].bank_id)]_vars

\* a bank with settled wagers whose profit is not zero holds its initial
\* balance: the write that settled the last of them did not count it
C23_Witness ==
    \E b \in DOMAIN banks :
        /\ SettledSum(bets, b) /= 0
        /\ banks[b].current_balance = banks[b].initial_balance

\* C24: updateBetStatus with the outcome the wager already has changes
\* neither the wager's profit nor the current_balance of its bankroll.
C24_SameOutcomeNoChange ==
    [][\A i \in DOMAIN bets :
          (/\ BetVisible("A", i)
           /\ UpdateBetStatus("s1", "A", i, bets[i].status))
          => /\ bets'[i].profit = bets[i].profit
             /\ banks'[bets[i].bank_id].current_balance
                  = banks[bets[i].bank_id].current_balance]_vars

\* the step leaves every bank but b, and every wager but i, as it was
OnlyTouches(b, i) ==
    /\ \A c \in DOMAIN banks \ {b} :
          c \in DOMAIN banks' /\ banks'[c] = banks[c]
    /\ \A j \in DOMAIN bets \ {i} :
          j \in DOMAIN bets' /\ bets'[j] = bets[j]

\* C25: a wager insert or update on a bankroll leaves the initial_balance
\* and the current_balance of every other bankroll, and the stake, odds,
\* outcome and profit of every other wager, unchanged.
C25_WriteFrame ==
    [][/\ nextBetId' /= nextBetId
          => OnlyTouches(bets'[nextBetId].bank_id, nextBetId)
       /\ \A i \in DOMAIN bets \cap DOMAIN bets' :
            StatusUpdateOf(i) => OnlyTouches(bets[i].bank_id, i)]_vars

\* two banks with wagers: the balance of one has moved with a write, the
\* other holds its initial balance
C25_Witness ==
    \E b, c \in DOMAIN banks :
        /\ b /= c
        /\ BetsOf(bets, b) /= {} /\ BetsOf(bets, c) /= {}
        /\ banks[b].current_balance /= banks[b].initial_balance
        /\ banks[c].current_balance = banks[c].initial_balance

----------------------------------------------------------------------------
(* History with its outcome select *)

\* History.updateBetStatus from the select of a wager of the list: the
\* update, the toast "Estado actualizado", then fetchBets() for the bank,
\* the filter and the page History holds, over the table as the update
\* has left it
HistoryUpdateBetStatus(s, caller, betId, newStatus) ==
    /\ txn = Idle
    /\ \E k \in 1..Len(hist.bets) : hist.bets[k] = betId
    /\ IF BetVisible(caller, betId)
       THEN LET new == [bets[betId] EXCEPT !.status = newStatus]
            IN /\ banks' = TriggerBanks(banks, bets, new)
               /\ bets' = Put(bets, betId, TriggerRow(new))
       ELSE UNCHANGED <<banks, bets>>
    /\ hist' = AfterFetch(bets', caller, Val(hist.selectedBank),
                          hist.statusFilter, hist.currentPage)
    /\ Say(s, IF IsNull(FetchAnswer(bets', caller, Val(hist.selectedBank),
                                    hist.statusFilter, hist.currentPage))
              THEN "error" ELSE "success")
    /\ UNCHANGED <<nextBankId, nextBetId, txn, dashBanks, views>>

\* the wagers whose outcome the user changes: the oldest ones, the last
\* of the list
Reviewed == 1..2

\* One user on the History page: selections, pages and outcome updates
NextReview ==
    \/ HistoryMount("s1", "A")
    \/ \E b \in 1..2 : SelectBank("s1", "A", b)
    \/ \E f \in Filters : SelectStatusFilter("s1", "A", f)
    \/ PreviousPage("s1", "A")
    \/ NextPage("s1", "A")
    \/ \E i \in Reviewed, st \in Statuses :
          HistoryUpdateBetStatus("s1", "A", i, st)

SpecReview == InitHistory /\ [][NextReview]_vars

\* C26: after any sequence of page changes, bankroll and filter selections
\* and outcome updates in History, once the fetches are done, the current
\* page is at least 1 and at most max(1, ceil(totalBets / 10)).
C26_PageInRange ==
    /\ hist.currentPage >= 1
    /\ hist.currentPage <= IF TotalPages > 1 THEN TotalPages ELSE 1

----------------------------------------------------------------------------
(* History with fetches in flight.  fetchBets is an async function: the   *)
(* effect calls it with the bank, the filter and the page of the render   *)
(* it belongs to, the request is sent, and setBets and setTotalBets run   *)
(* when its answer arrives.  Neither the effect nor fetchBets cancels a   *)
(* request or tells which answer is the latest.                           *)

\* the most requests of History in flight at a time
MaxFetches == 2

\* the effect on [selectedBank, statusFilter, currentPage]: the state is
\* set and the request for it is sent
SendFetch(bank, filter, page) ==
    /\ Cardinality(fetching) < MaxFetches
    /\ hist' = [hist EXCEPT !.selectedBank = Some(bank),
                            !.statusFilter = filter,
                            !.currentPage = page]
    /\ fetching' = fetching \cup
                     {[bank |-> bank, filter |-> filter, page |-> page]}
    /\ UNCHANGED <<banks, bets, nextBankId, nextBetId, toast, txn,
                   dashBanks, dailyStats, daily, layout>>

\* fetchBanks on mount selects the newest bank of the caller
MountSends(caller) ==
    /\ hist.selectedBank = Null
    /\ LET mine == {b \in DOMAIN banks : banks[b].user_id = caller}
       IN /\ mine /= {}
          /\ SendFetch(CHOOSE b \in mine : \A c \in mine : c <= b,
                       hist.statusFilter, hist.currentPage)

SelectBankSends(caller, bank) ==
    /\ hist.selectedBank /= Null
    /\ hist.selectedBank /= Some(bank)
    /\ BankVisible(caller, bank)
    /\ SendFetch(bank, hist.statusFilter, 1)

SelectStatusFilterSends(filter) ==
    /\ hist.selectedBank /= Null
    /\ hist.statusFilter /= filter
    /\ SendFetch(Val(hist.selectedBank), filter, 1)

PreviousPageSends ==
    /\ Len(hist.bets) > 0
    /\ TotalPages > 1
    /\ hist.currentPage /= 1
    /\ SendFetch(Val(hist.selectedBank), hist.statusFilter,
                 hist.currentPage - 1)

NextPageSends ==
    /\ Len(hist.bets) > 0
    /\ TotalPages > 1
    /\ hist.currentPage /= TotalPages
    /\ SendFetch(Val(hist.selectedBank), hist.statusFilter,
                 Min(TotalPages, hist.currentPage + 1))

\* the store runs the query of a request in flight and its answer
\* arrives: setBets, setTotalBets, or the error toast of the catch
FetchAnswered(s, caller, request) ==
    /\ request \in fetching
    /\ fetching' = fetching \ {request}
    /\ LET answer == FetchAnswer(bets, caller, request.bank, request.filter,
                                 request.page)
       IN IF IsNull(answer)
          THEN /\ Say(s, "error")
               /\ UNCHANGED hist
          ELSE /\ hist' = [hist EXCEPT !.bets = Val(answer).bets,
                                       !.totalBets = Val(answer).totalBets]
               /\ UNCHANGED toast
    /\ UNCHANGED <<banks, bets, nextBankId, nextBetId, txn, dashBanks,
                   dailyStats, daily, layout>>

\* One user on the History page, over tables that do not change
NextRace ==
    \/ MountSends("A")
    \/ \E b \in 1..2 : SelectBankSends("A", b)
    \/ \E f \in Filters : SelectStatusFilterSends(f)
    \/ PreviousPageSends
    \/ NextPageSends
    \/ \E r \in fetching : FetchAnswered("s1", "A", r)

SpecRace == InitHistory /\ [][NextRace]_vars

\* C27: when the bankroll, the filter or the page changes while a fetch is
\* in flight, then once every fetch in flight is answered History shows
\* the wagers and the count of its latest selection, whatever the order of
\* the answers.
C27_LatestSelectionShown ==
    (fetching = {} /\ hist.selectedBank /= Null)
    => LET answer == FetchAnswer(bets, "A", Val(hist.selectedBank),
                                 hist.statusFilter, hist.currentPage)
       IN answer /= Null
          => /\ hist.bets = Val(answer).bets
             /\ hist.totalBets = Val(answer).totalBets

----------------------------------------------------------------------------
(* The two daily aggregates over the same rows *)

\* the longest answer the two reduces are given
MaxData == 2

\* the profit a row of an answer may hold: `profit: number | null`
RowProfits == {Null, Some(0), Some(15000), Some(-10000)}

\* the rows of an answer, as the Bet interface of the pages admits them
DataRows ==
    [user_id : {"A"}, bank_id : {1}, amount : {10000}, odds : {250},
     status : Statuses, profit : RowProfits, bet_date : {Today}]

\* DailyBets holds an answer of up to MaxData rows in its `bets` state
InitSummary ==
    \E n \in 0..MaxData :
        \E data \in [1..n -> DataRows] :
            /\ banks = <<>>
            /\ bets = <<>>
            /\ nextBankId = 1
            /\ nextBetId = 1
            /\ toast = [s \in Sessions |-> "none"]
            /\ txn = Idle
            /\ dashBanks = <<>>
            /\ hist = NoHistory
            /\ dailyStats = NoStats
            /\ daily = [NoDaily EXCEPT !.bets = data]
            /\ fetching = {}
            /\ layout = NoLayout

\* the reduce of fetchDailyStats and setDailyStats, over the same answer
SetDailyStats ==
    /\ dailyStats' = StatsOf(daily.bets)
    /\ UNCHANGED <<banks, bets, nextBankId, nextBetId, toast, txn,
                   dashBanks, hist, daily, fetching, layout>>

NextSummary == SetDailyStats

SpecSummary == InitSummary /\ [][NextSummary]_vars

\* C28: the daily aggregate of the Dashboard and the summary of the daily
\* view give the same count, won count, lost count and net profit over the
\* same wagers, those with a null profit included.
C28_AggregatesAgree ==
    [][SetDailyStats
       => LET summary == CalculateDailySummary(daily.bets)
          IN /\ dailyStats'.total_bets = summary.total
             /\ dailyStats'.total_won = summary.won
             /\ dailyStats'.total_lost = summary.lost
             /\ dailyStats'.net_profit = summary.profit]_vars

\* the Dashboard has reduced an answer with a won wager whose profit is
\* null and a wager with a profit
C28_Witness ==
    /\ dailyStats.total_bets = 2
    /\ dailyStats.net_profit /= 0
    /\ \E k \in 1..Len(daily.bets) :
          daily.bets[k].status = "won" /\ IsNull(daily.bets[k].profit)

----------------------------------------------------------------------------
(* Layout: the session guard of the pages.  Every page but /auth renders  *)
(* its content inside a Layout of its own, so a change of route unmounts  *)
(* one Layout and mounts another, whose `session` state starts at null.   *)

\* the routes of menuItems
Pages == {"/", "/banks", "/new-bet", "/daily-bets", "/history"}

\* (a Layout that returns its children whatever the session is)
Rendered(session) == TRUE

\* the session guard: `if (!session) return null`, else the children
Render(session) == session /= Null

\* navigate("/auth"): the route changes and the Layout is unmounted
AtAuth(l) ==
    [l EXCEPT !.pathname = "/auth", !.mounted = FALSE, !.session = Null,
              !.children = FALSE]

\* A page is opened at `path` (by its URL, or by navigate(item.path) from
\* the menu of a rendered Layout): its Layout mounts with session null,
\* renders nothing, and the effect subscribes and calls getSession()
OpenPage(path) ==
    /\ layout.mounted => layout.children
    /\ layout.pathname /= path
    /\ layout' = [layout EXCEPT !.pathname = path, !.mounted = TRUE,
                                !.session = Null,
                                !.children = Render(Null),
                                !.pending = @ \cup {path}]
    /\ UNCHANGED <<banks, bets, nextBankId, nextBetId, toast, txn,
                   dashBanks, hist, dailyStats, daily, fetching>>

\* the callback of both the subscription and getSession(), for the Layout
\* whose effect ran at `path`: setSession(session), and navigate("/auth")
\* when there is none and the path is not /auth.  setSession acts on the
\* Layout that is mounted at that path, if it still is.
FoundSession(l, path, session) ==
    IF session = Null /\ path /= "/auth" THEN AtAuth(l)
    ELSE IF l.mounted /\ l.pathname = path
    THEN [l EXCEPT !.session = session, !.children = Render(session)]
    ELSE l

\* getSession() of the effect that ran at `path` resolves with the
\* client's session
GetSessionResolves(path) ==
    /\ path \in layout.pending
    /\ layout' = FoundSession([layout EXCEPT !.pending = @ \ {path}], path,
                              layout.auth)
    /\ UNCHANGED <<banks, bets, nextBankId, nextBetId, toast, txn,
                   dashBanks, hist, dailyStats, daily, fetching>>

\* The client's session changes (a sign-in on /auth, a sign-out in another
\* tab, a refresh that fails): onAuthStateChange calls the callback of the
\* Layout that is subscribed, if one is mounted
AuthStateChange(session) ==
    /\ layout.auth /= session
    /\ LET l == [layout EXCEPT !.auth = session]
       IN layout' = IF layout.mounted
                    THEN FoundSession(l, layout.pathname, session)
                    ELSE l
    /\ UNCHANGED <<banks, bets, nextBankId, nextBetId, toast, txn,
                   dashBanks, hist, dailyStats, daily, fetching>>

\* handleLogout, from the button of a rendered Layout: signOut() (whose
\* SIGNED_OUT event calls the callback), the toast, navigate("/auth")
HandleLogout(s) ==
    /\ layout.mounted /\ layout.children
    /\ layout' = AtAuth(FoundSession([layout EXCEPT !.auth = Null],
                                     layout.pathname, Null))
    /\ Say(s, "success")
    /\ UNCHANGED <<banks, bets, nextBankId, nextBetId, txn, dashBanks,
                   hist, dailyStats, daily, fetching>>

NextLayout ==
    \/ \E p \in Pages : OpenPage(p)
    \/ \E p \in Pages : GetSessionResolves(p)
    \/ \E u \in {Null} \cup {Some(c) : c \in Users} : AuthStateChange(u)
    \/ HandleLogout("s1")

SpecLayout == Init /\ [][NextLayout]_vars

\* the step finds the session absent on a path other than /auth: by the
\* check of getSession(), by an auth state change, or by a logout
FoundAbsent ==
    \/ \E p \in Pages : layout.auth = Null /\ GetSessionResolves(p)
    \/ layout.mounted /\ layout.pathname /= "/auth" /\ AuthStateChange(Null)
    \/ HandleLogout("s1")

\* C29: Layout renders its children only while it holds a session, and
\* whenever the session is found absent on a path other than /auth, a
\* navigation to /auth is issued.
C29_SessionGuard ==
    [][/\ layout'.children => (layout'.mounted /\ layout'.session /= Null)
       /\ FoundAbsent => layout'.pathname = "/auth"]_vars

\* the children of a page have been rendered for a user, and the client
\* is back on /auth without a session after a page was open
C29_Witness ==
    /\ layout.pathname = "/auth"
    /\ layout.auth = Null
    /\ toast["s1"] = "success"
    /\ layout.pending /= {}

----------------------------------------------------------------------------
(* The ROI of a bankroll.  A JavaScript number is the record of its kind  *)
(* ("number", "NaN", "Infinity", "-Infinity") and, for a number, of its   *)
(* value in hundredths of a percent, as toFixed(2) shows it.              *)

Number(v) == [kind |-> "number", value |-> v]

\* ((current_balance - initial_balance) / initial_balance) * 100 in
\* floating point: a division by zero gives NaN for 0 / 0 and an infinity
\* of the sign of the dividend otherwise
RoiOf(bank) ==
    LET gain == bank.current_balance - bank.initial_balance
    IN IF bank.initial_balance /= 0
       THEN Number(RoundDiv(gain * 10000, bank.initial_balance))
       ELSE IF gain = 0 THEN [kind |-> "NaN", value |-> 0]
       ELSE IF gain > 0 THEN [kind |-> "Infinity", value |-> 0]
       ELSE [kind |-> "-Infinity", value |-> 0]

\* Banks.calculateROI
CalculateROI(bank) ==
    IF bank.initial_balance = 0 THEN Number(0) ELSE RoiOf(bank)

\* the `roi` of the Dashboard for the selected bank (0 when there is none)
DashboardRoi(bank) == RoiOf(bank)

\* One owner: banks of any accepted balance, zero included, wagers by the
\* form and outcome updates, and the Dashboard reading the banks
NextRoi ==
    \/ \E b \in CreateInputs : CreateBank("s1", "A", b)
    \/ \E st \in Statuses, b \in BankChoices("A") :
          HandleSubmit("s1", "A", Some(10000), Some(250), b, st, Some(Today))
    \/ \E i \in 1..MaxBets, st \in Statuses : UpdateBetStatus("s1", "A", i, st)
    \/ FetchBanks("A")

SpecRoi == Init /\ [][NextRoi]_vars

\* C30: for a bankroll whose initial_balance is 0 the ROI shown is 0, on
\* the Banks page and on the Dashboard.
C30_RoiOfZeroBalance ==
    /\ \A b \in DOMAIN banks :
          banks[b].initial_balance = 0 => CalculateROI(banks[b]) = Number(0)
    /\ \A b \in DOMAIN dashBanks :
          dashBanks[b].initial_balance = 0
          => DashboardRoi(dashBanks[b]) = Number(0)

====
